---- MODULE Spec2Model ----
(***************************************************************************)
(* Passwordless e-mail OTP login, stateless session tokens and ownership   *)
(* checks of the Hono backend (apps/backend).  The database tables are the *)
(* shared state; every request or library call is a process whose steps    *)
(* are separated at the awaited database round trips.                      *)
(***************************************************************************)
EXTENDS Naturals, Integers, Sequences, FiniteSets, TLC

\* ------------------------------------------------------------------ bounds
NumProcs == 2        \* concurrent calls / requests in flight
MaxOtps == 2         \* rows the otp table may hold
MaxOffset == 1       \* seconds past a period boundary the clock may reach
MaxTodos == 2        \* rows ever inserted into the todos table
MaxPending == 1      \* todos requests between their select and their write
MaxImages == 2       \* rows ever inserted into the images table

\* ------------------------------------------------------- program constants
OTP_TTL == 600       \* 10 * 60 seconds
JWT_TTL == 86400     \* '24h'

Procs == 1..NumProcs
Pending == 1..MaxPending
Users == {1, 2}              \* user ids (generateUUID values)
JWT_SECRET == "s1"           \* c.env.JWT_SECRET
Secrets == {"s1", "s2"}
EmailSeq == <<"a@x.io", "b@x.io">>
CodeSeq == <<"111111", "222222">>
Emails == {EmailSeq[i] : i \in 1..Len(EmailSeq)}
Codes == {CodeSeq[i] : i \in 1..Len(CodeSeq)}
NoUser == 0         \* null: no user id

VARIABLES
  now,     \* Math.floor(Date.now() / 1000): the clock in seconds
  otps,    \* the otp table, in insertion (rowid) order
  vp,      \* per worker: position and locals of the verifyOTP call it runs
  ret,     \* the verifyOTP or createOTP call that returned in the step just taken
  users,   \* the users table, in insertion order
  gp,      \* per worker: position and locals of the getOrCreateUser call it runs
  gret,    \* the getOrCreateUser call that returned or threw in the step just taken
  chk,     \* the verifyJWT call or jwtAuth run of the step just taken
  todos,   \* the todos table, in insertion (AUTOINCREMENT id) order
  tq,      \* per slot: a todos request between its select and its write
  resp,    \* the HTTP response being sent (NoResp if none is)
  hp,      \* per worker: position and locals of the verify-otp request it runs
  hresp,   \* the /api/auth response sent in the step just taken (NoAuthResp if none was)
  images,  \* the images table, in insertion (AUTOINCREMENT id) order
  iq,      \* per slot: a delete-image request between its select and its delete
  iresp,   \* the /api/images response sent in the step just taken (NoImageResp if none was)
  env      \* c.env: the bindings of the current deployment

varsOtp == <<otps, vp, ret>>
varsUser == <<users, gp, gret>>
varsJwt == <<chk, env>>
varsTodo == <<todos, tq, resp>>
varsAuth == <<hp, hresp>>
varsImage == <<images, iq, iresp>>
vars == <<now, otps, vp, ret, users, gp, gret, chk, todos, tq, resp, hp, hresp,
          images, iq, iresp, env>>

\* ------------------------------------------------------------------ rows
NoOtp == [id |-> 0, userId |-> NoUser, email |-> "", code |-> "",
          expiresAt |-> 0, isUsed |-> FALSE, createdAt |-> 0]

\* A call between its select and its update.  Of its locals only `record`
\* is read again.  History, fixed when the select ran: late (now was past
\* rec.expiresAt), isNewest (no row of the e-mail had a greater created_at),
\* stale (some call had already returned success on the row, which is when
\* a row's isUsed is set).
IdleProc == [pc |-> "idle", rec |-> NoOtp, late |-> FALSE, isNewest |-> FALSE,
             stale |-> FALSE]

\* What a call returned.  verifyOTP: the code it was given, whether it ran
\* the update (upd) and whether the row was already used when the update
\* ran (dup).  createOTP: made (id of the row it inserted), mail (how the
\* delivery went), outcome ("code": it returned the code, "throw": it threw).
NoReturn == [call |-> IdleProc, code |-> "", success |-> FALSE, error |-> "",
             userId |-> NoUser, upd |-> FALSE, dup |-> FALSE,
             made |-> 0, mail |-> "", outcome |-> "", email |-> ""]

OtpIds == 1..Len(otps)

Max(S) == CHOOSE x \in S : \A y \in S : y <= x

\* ----------------------------------------------------------------- clock
\* Time passes: first a whole period, then up to MaxOffset single seconds.
Tick(period) ==
  \E d \in {1, period} :
    /\ now + d >= period
    /\ now + d <= period + MaxOffset
    /\ now' = now + d

\* E-mail addresses and codes are interchangeable names: a value not yet
\* in the table is represented by the first such value of the sequence.
Names(seq, used) ==
  {seq[i] : i \in {k \in 1..Len(seq) : \A j \in 1..(k - 1) : seq[j] \in used}}

\* Workers are interchangeable: the idle worker of least index takes the call.
FirstIdle(f, p) == f[p].pc = "idle" /\ \A q \in 1..(p - 1) : f[q].pc # "idle"

\* --------------------------------------------------------------- createOTP
\* An insert that also marks the earlier codes of the e-mail used.
InsertOtp_Invalidating(email, code, userId) ==
  Append([i \in OtpIds |-> IF otps[i].email = email
                           THEN [otps[i] EXCEPT !.isUsed = TRUE] ELSE otps[i]],
         [id |-> Len(otps) + 1, userId |-> userId, email |-> email,
          code |-> code, expiresAt |-> now + OTP_TTL, isUsed |-> FALSE,
          createdAt |-> now])

\* insert into otp values (id, userId || null, email, code, expiresAt, false)
InsertOtp(email, code, userId) ==
  Append(otps, [id |-> Len(otps) + 1, userId |-> userId, email |-> email,
                code |-> code, expiresAt |-> now + OTP_TTL, isUsed |-> FALSE,
                createdAt |-> now])

\* How the delivery of the code goes: origin is localhost (console.log
\* only), sendOTPEmail resolves, or sendOTPEmail throws.
Mails == {"localhost", "sent", "failed"}

CreateOutcome_Rethrow(mail) == IF mail = "failed" THEN "throw" ELSE "code"

\* try { await sendOTPEmail(...) } catch { /* Don't throw */ }; return otpCode
CreateOutcome(mail) == "code"

\* The insert, then the delivery, which touches no table.
CreateOTP(email, code, mail) ==
  /\ Len(otps) < MaxOtps
  /\ otps' = InsertOtp(email, code, NoUser)
  /\ ret' = [NoReturn EXCEPT !.code = IF CreateOutcome(mail) = "code"
                                      THEN code ELSE "",
                             !.made = Len(otps) + 1, !.mail = mail,
                             !.outcome = CreateOutcome(mail)]
  /\ UNCHANGED <<now, vp>>

\* select().from(otp).where(eq(otp.email, email)).orderBy(otp.createdAt).limit(1):
\* ascending order, one row; rows with equal created_at come in either order.
SelectOtp(email) ==
  LET rows == {otps[i] : i \in {j \in OtpIds : otps[j].email = email}}
  IN {r \in rows : \A q \in rows : r.createdAt <= q.createdAt}

CodeMismatch(rec, code) == rec.code # code

\* ------------------------------------------------------------ users table
NoGet == [email |-> "", id |-> NoUser, threw |-> FALSE, returned |-> FALSE]

IdleGet == [pc |-> "idle", email |-> ""]

UserIds == 1..Len(users)

\* select().from(users).where(eq(users.email, email)).limit(1)
SelectUser(email) == {users[i] : i \in {j \in UserIds : users[j].email = email}}

\* insert(users).values({id: generateUUID(), email, name: name || null,
\* emailVerified: false, provider: 'email'}); the id is fresh.
InsertUser(email) ==
  Append(users, [id |-> Len(users) + 1, email |-> email, name |-> "null",
                 emailVerified |-> FALSE])

UniqueEmailViolated_Off(email) == FALSE

\* users.email is declared unique(): the insert fails when a row has it.
UniqueEmailViolated(email) == \E i \in UserIds : users[i].email = email

\* getOrCreateUser up to the awaited insert: an existing row's id is
\* returned at once.
GetSelect(p, email) ==
  /\ gp[p].pc = "idle"
  /\ IF SelectUser(email) # {}
     THEN /\ \E u \in SelectUser(email) :
               gret' = [email |-> email, id |-> u.id, threw |-> FALSE,
                        returned |-> TRUE]
          /\ UNCHANGED gp
     ELSE /\ gp' = [gp EXCEPT ![p] = [pc |-> "g_insert", email |-> email]]
          /\ gret' = NoGet
  /\ UNCHANGED <<now, users>>

\* The insert runs in the database: it throws on the unique constraint
\* (nothing catches it in getOrCreateUser), else the new id is returned.
GetInsert(p) ==
  /\ gp[p].pc = "g_insert"
  /\ IF UniqueEmailViolated(gp[p].email)
     THEN /\ gret' = [email |-> gp[p].email, id |-> NoUser, threw |-> TRUE,
                      returned |-> FALSE]
          /\ UNCHANGED users
     ELSE /\ users' = InsertUser(gp[p].email)
          /\ gret' = [email |-> gp[p].email, id |-> Len(users) + 1,
                      threw |-> FALSE, returned |-> TRUE]
  /\ gp' = [gp EXCEPT ![p] = IdleGet]
  /\ UNCHANGED now

SetVerified_Toggle(userId) ==
  [i \in UserIds |-> IF users[i].id = userId
                     THEN [users[i] EXCEPT !.emailVerified = ~@]
                     ELSE users[i]]

\* update(users).set({ emailVerified: true }).where(eq(users.id, userId))
SetVerified(userId) ==
  [i \in UserIds |-> IF users[i].id = userId
                     THEN [users[i] EXCEPT !.emailVerified = TRUE]
                     ELSE users[i]]

MarkEmailAsVerified(userId) ==
  /\ users' = SetVerified(userId)
  /\ gret' = NoGet
  /\ UNCHANGED <<now, gp>>

\* --------------------------------------------------------------- verifyOTP
IsUsed_Dropped(rec) == FALSE

IsUsed(rec) == rec.isUsed

IsExpired_Lte(rec, t) == rec.expiresAt <= t

IsExpired(rec, t) == rec.expiresAt < t

VerifyChecks_ExpiredFirst(rec, code, t) ==
  IF rec.id = 0 THEN "OTP not found"
  ELSE IF IsExpired(rec, t) THEN "OTP expired"
  ELSE IF CodeMismatch(rec, code) THEN "Invalid OTP"
  ELSE IF IsUsed(rec) THEN "OTP already used"
  ELSE ""

\* The checks between the select and the update, in the code's order.
\* "" means every check passed.
VerifyChecks(rec, code, t) ==
  IF rec.id = 0 THEN "OTP not found"
  ELSE IF CodeMismatch(rec, code) THEN "Invalid OTP"
  ELSE IF IsUsed(rec) THEN "OTP already used"
  ELSE IF IsExpired(rec, t) THEN "OTP expired"
  ELSE ""

MarkUsed_Extending(id) ==
  [i \in OtpIds |-> IF otps[i].id = id
                    THEN [otps[i] EXCEPT !.isUsed = TRUE,
                                         !.expiresAt = now + OTP_TTL]
                    ELSE otps[i]]

\* update(otp).set({ isUsed: true }).where(eq(otp.id, record.id))
MarkUsed(id) ==
  [i \in OtpIds |-> IF otps[i].id = id THEN [otps[i] EXCEPT !.isUsed = TRUE]
                    ELSE otps[i]]

\* const now = Math.floor(Date.now() / 1000), then the select runs in the
\* database and the checks on its result follow (no await in between).  A
\* failed check returns at once; otherwise the update is awaited.
VerifySelect(p, email, code) ==
  /\ vp[p].pc = "idle"
  /\ \E rec \in (IF SelectOtp(email) = {} THEN {NoOtp} ELSE SelectOtp(email)) :
       LET err == VerifyChecks(rec, code, now)
           mine == {otps[i].createdAt : i \in {j \in OtpIds :
                                              otps[j].email = email}}
           call == [pc |-> "v_update", rec |-> rec,
                    late |-> rec.id # 0 /\ now > rec.expiresAt,
                    isNewest |-> rec.id # 0 /\ rec.createdAt = Max(mine),
                    stale |-> rec.id # 0 /\ otps[rec.id].isUsed]
       IN IF err = ""
          THEN /\ vp' = [vp EXCEPT ![p] = call]
               /\ ret' = NoReturn
          ELSE /\ ret' = [NoReturn EXCEPT !.call = call, !.code = code,
                                          !.error = err, !.email = email]
               /\ UNCHANGED vp
  /\ UNCHANGED <<now, otps>>

\* The update runs in the database; the call returns success.
VerifyUpdate(p) ==
  /\ vp[p].pc = "v_update"
  /\ otps' = MarkUsed(vp[p].rec.id)
  /\ ret' = [NoReturn EXCEPT !.call = vp[p], !.code = vp[p].rec.code,
                             !.success = TRUE, !.userId = vp[p].rec.userId,
                             !.upd = TRUE, !.dup = otps[vp[p].rec.id].isUsed,
                             !.email = vp[p].rec.email]
  /\ vp' = [vp EXCEPT ![p] = IdleProc]
  /\ UNCHANGED now

\* ---------------------------------------------------------- session tokens
\* HMAC-SHA256 as an ideal MAC: the tag names the payload and the key it
\* was computed from; intact is FALSE once a byte of the tag was changed.
Mac(sub, iat, exp, key) ==
  [sub |-> sub, iat |-> iat, exp |-> exp, key |-> key, intact |-> TRUE]

\* A token issued to the first user whoever asks.
generateJWT_FirstUser(userId, secret, t) ==
  [wf |-> TRUE, sub |-> 1, iat |-> t, exp |-> t + JWT_TTL,
   sig |-> Mac(1, t, t + JWT_TTL, secret),
   mintedFor |-> 1, mintedWith |-> secret]

\* new SignJWT({sub: userId, type: 'access'}).setProtectedHeader({alg: 'HS256'})
\*   .setIssuedAt().setExpirationTime('24h').sign(secret), at second t.
\* wf: a three-part compact JWS.  mintedFor, mintedWith: history (who the
\* token was issued for and under which secret; NoUser / "" once altered).
generateJWT(userId, secret, t) ==
  [wf |-> TRUE, sub |-> userId, iat |-> t, exp |-> t + JWT_TTL,
   sig |-> Mac(userId, t, t + JWT_TTL, secret),
   mintedFor |-> userId, mintedWith |-> secret]

SigOk_Skipped(tok, secret) == TRUE

\* jose jwtVerify: the signature must verify under the given key
SigOk(tok, secret) == tok.sig = Mac(tok.sub, tok.iat, tok.exp, secret)

NotExpired_Skipped(tok, t) == TRUE

\* jose jwtVerify: rejects when payload.exp <= now (no clock tolerance)
NotExpired(tok, t) == t < tok.exp

\* await jwtVerify(token, key): TRUE when it does not throw
jwtVerify(tok, secret, t) == tok.wf /\ SigOk(tok, secret) /\ NotExpired(tok, t)

verifyJWT(tok, secret, t) ==
  IF jwtVerify(tok, secret, t)
  THEN IF tok.sub = NoUser
       THEN [userId |-> NoUser, error |-> "Invalid token"]
       ELSE [userId |-> tok.sub, error |-> ""]
  ELSE [userId |-> NoUser, error |-> "Token verification failed"]

\* The Authorization header: absent, not 'Bearer <token>', or a bearer token.
NoToken == [wf |-> FALSE, sub |-> NoUser, iat |-> 0, exp |-> 0,
            sig |-> [Mac(NoUser, 0, 0, "") EXCEPT !.intact = FALSE],
            mintedFor |-> NoUser, mintedWith |-> ""]

NoHeader == [kind |-> "missing", token |-> NoToken]
BadHeader == [kind |-> "malformed", token |-> NoToken]
Bearer(tok) == [kind |-> "bearer", token |-> tok]

jwtAuth_FallThrough(header, t) ==
  IF header.kind = "missing"
  THEN [status |-> 401, error |-> "Missing authorization header", userId |-> NoUser]
  ELSE IF header.kind # "bearer"
  THEN [status |-> 401, error |-> "Invalid authorization header format",
        userId |-> NoUser]
  ELSE [status |-> 0, error |-> "",
        userId |-> verifyJWT(header.token, JWT_SECRET, t).userId]

\* jwtAuth: status 401 with its error body, or status 0: userId is set in
\* the context and next() runs.
jwtAuth(header, t) ==
  IF header.kind = "missing"
  THEN [status |-> 401, error |-> "Missing authorization header", userId |-> NoUser]
  ELSE IF header.kind # "bearer"
  THEN [status |-> 401, error |-> "Invalid authorization header format",
        userId |-> NoUser]
  ELSE LET v == verifyJWT(header.token, JWT_SECRET, t)
       IN IF v.userId = NoUser
          THEN [status |-> 401,
                error |-> IF v.error # "" THEN v.error ELSE "Invalid token",
                userId |-> NoUser]
          ELSE [status |-> 0, error |-> "", userId |-> v.userId]

\* The instants the clock can have shown so far.
Instants(period) == {t \in {0} \cup {period + k : k \in 0..MaxOffset} : t <= now}

\* Tokens a caller can hold at this moment: issued by generateJWT at some
\* earlier instant, possibly altered afterwards, or not a JWT at all.
Minted ==
  {generateJWT(u, s, t) : u \in Users, s \in Secrets, t \in Instants(JWT_TTL)}

\* the payload's subject rewritten, the signature kept
TamperSub(tok, u) == [tok EXCEPT !.sub = u, !.mintedFor = NoUser, !.mintedWith = ""]

\* the payload's expiry pushed back, the signature kept
TamperExp(tok) ==
  [tok EXCEPT !.exp = tok.exp + JWT_TTL, !.mintedFor = NoUser, !.mintedWith = ""]

\* one byte of the signature changed
TamperSig(tok) ==
  [tok EXCEPT !.sig.intact = FALSE, !.mintedFor = NoUser, !.mintedWith = ""]

Tampered ==
  UNION {{TamperSub(tok, u) : u \in Users \ {tok.sub}} : tok \in Minted}
    \cup {TamperExp(tok) : tok \in Minted} \cup {TamperSig(tok) : tok \in Minted}

\* signed like generateJWT's tokens, with an empty subject claim
Unsubjected == {generateJWT(NoUser, s, t) : s \in Secrets, t \in Instants(JWT_TTL)}

Tokens == Minted \cup Tampered \cup Unsubjected \cup {NoToken}

Headers == {NoHeader, BadHeader} \cup {Bearer(tok) : tok \in Tokens}

NoCheck == [kind |-> "", token |-> NoToken, header |-> "", secret |-> "",
            at |-> 0, status |-> 0, userId |-> NoUser, error |-> ""]

\* One verifyJWT(token, secret) call.
VerifyJwtCall(tok, secret) ==
  /\ chk' = [kind |-> "verifyJWT", token |-> tok, header |-> "bearer",
             secret |-> secret, at |-> now, status |-> 0,
             userId |-> verifyJWT(tok, secret, now).userId,
             error |-> verifyJWT(tok, secret, now).error]
  /\ UNCHANGED <<now, env>>

\* One run of the jwtAuth middleware on a request's Authorization header.
JwtAuthRun(header) ==
  /\ chk' = [kind |-> "jwtAuth", token |-> header.token, header |-> header.kind,
             secret |-> JWT_SECRET, at |-> now,
             status |-> jwtAuth(header, now).status,
             userId |-> jwtAuth(header, now).userId,
             error |-> jwtAuth(header, now).error]
  /\ UNCHANGED <<now, env>>

TickJwt == Tick(JWT_TTL) /\ chk' = NoCheck /\ UNCHANGED env

\* ------------------------------------------------- /api/auth responses
\* A verify-otp request between two awaited calls; of its locals email and
\* userId are read again.  History: consumed (the request's verifyOTP update
\* changed a row from isUsed = false to true) and otp (the id of the row
\* the request's verifyOTP returned success on, 0 if none).
IdleAuth == [pc |-> "idle", email |-> "", userId |-> NoUser, consumed |-> FALSE,
             otp |-> 0]

NoUserRow == [id |-> NoUser, email |-> "", name |-> "null", emailVerified |-> FALSE]

\* A response: status and the JSON body's keys (success, message, token,
\* user), with the route and e-mail of its request.  History: otpFailed
\* (verifyOTP returned success: false in the request), consumed, code (the
\* code of a verify-otp request answered before verifyOTP's update) and db
\* (the request read or wrote a table).
NoAuthResp == [route |-> "", email |-> "", status |-> 0, success |-> FALSE,
               message |-> "", token |-> NoToken, user |-> NoUserRow,
               otpFailed |-> FALSE, consumed |-> FALSE, code |-> "", db |-> FALSE,
               otp |-> 0]

\* ------------------------------------------------------------ todos table
NoTodo == [id |-> 0, userId |-> NoUser, task |-> "", isDone |-> FALSE,
           updatedAt |-> 0, gone |-> FALSE]

TodoIds == 1..Len(todos)

\* select().from(todos).where(eq(todos.id, id)).get(); a deleted row keeps
\* its place (ids are AUTOINCREMENT, never given out again) marked gone.
SelectTodo(id) ==
  {todos[i] : i \in {j \in TodoIds : todos[j].id = id /\ ~todos[j].gone}}

\* select().from(todos).all(): the ids of the rows
AllTodos == {todos[i].id : i \in {j \in TodoIds : ~todos[j].gone}}

\* select().from(todos).where(eq(todos.userId, userId)).all(): their ids
UserTodos(userId) ==
  {todos[i].id : i \in {j \in TodoIds : ~todos[j].gone /\ todos[j].userId = userId}}

\* insert(todos).values({...data, userId}); isDone defaults to false
InsertTodo(data, userId) ==
  Append(todos, [id |-> Len(todos) + 1, userId |-> userId, task |-> data.task,
                 isDone |-> data.hasDone /\ data.isDone, updatedAt |-> now,
                 gone |-> FALSE])

\* update(todos).set({...data, updatedAt}).where(eq(todos.id, id))
UpdateTodo(id, data) ==
  [i \in TodoIds |->
     IF todos[i].id = id /\ ~todos[i].gone
     THEN [todos[i] EXCEPT !.task = IF data.task # "" THEN data.task ELSE @,
                           !.isDone = IF data.hasDone THEN data.isDone ELSE @,
                           !.updatedAt = now]
     ELSE todos[i]]

\* delete(todos).where(eq(todos.id, id))
DeleteTodo(id) ==
  [i \in TodoIds |-> IF todos[i].id = id
                     THEN [NoTodo EXCEPT !.id = id, !.gone = TRUE]
                     ELSE todos[i]]

\* ------------------------------------------------------------ todos router
\* A path below /api/todos, one record per segment: a literal or digits.
Lit(s) == [digits |-> FALSE, lit |-> s, num |-> 0]
Num(n) == [digits |-> TRUE, lit |-> "", num |-> n]

\* A JSON body: json FALSE when absent or unparsable; task "" when the key
\* is absent; hasDone tells whether the isDone key is present.
NoBody == [json |-> FALSE, task |-> "", hasDone |-> FALSE, isDone |-> FALSE]
Body(task, hasDone, isDone) ==
  [json |-> TRUE, task |-> task, hasDone |-> hasDone, isDone |-> isDone]

\* IdParamSchema: z.string().regex(/^\d+$/).transform(Number)
IdParamValid(seg) == seg.digits

\* CreateTodoSchema: task is required, isDone optional
CreateValid(data) == data.json /\ data.task # ""

\* UpdateTodoSchema: both keys optional
UpdateValid(data) == data.json

\* The handlers in the order Hono registered them: the legacy routes on
\* app, then app.route('/', authenticatedApp) appends the sub-app's entries,
\* its use('*', jwtAuth) first.
Routes == <<
  [method |-> "GET", path |-> <<>>, name |-> "listRoute"],
  [method |-> "GET", path |-> <<":id">>, name |-> "getRoute"],
  [method |-> "POST", path |-> <<>>, name |-> "createTodoRoute"],
  [method |-> "PUT", path |-> <<":id">>, name |-> "updateRoute"],
  [method |-> "DELETE", path |-> <<":id">>, name |-> "deleteRoute"],
  [method |-> "ALL", path |-> <<"*">>, name |-> "jwtAuth"],
  [method |-> "GET", path |-> <<"my-todos">>, name |-> "listUserTodosRoute"],
  [method |-> "POST", path |-> <<"my-todos">>, name |-> "createUserTodoRoute"],
  [method |-> "PUT", path |-> <<"my-todos", ":id">>, name |-> "updateUserTodoRoute"],
  [method |-> "DELETE", path |-> <<"my-todos", ":id">>,
   name |-> "deleteUserTodoRoute"] >>

\* The routes registered on authenticatedApp
Gated == {"listUserTodosRoute", "createUserTodoRoute", "updateUserTodoRoute",
          "deleteUserTodoRoute"}

HasParam(name) ==
  name \in {"getRoute", "updateRoute", "deleteRoute", "updateUserTodoRoute",
            "deleteUserTodoRoute"}

\* Hono's matching: '*' takes every path, ':id' any one segment.
Matches(r, req) ==
  /\ r.method \in {"ALL", req.method}
  /\ \/ r.path = <<"*">>
     \/ /\ Len(r.path) = Len(req.path)
        /\ \A i \in 1..Len(r.path) :
             r.path[i] = ":id" \/ req.path[i].lit = r.path[i]

\* The matching entries run in order from entry i on: the middleware
\* answers 401 or sets userId and calls next(); a route handler answers;
\* with no entry left Hono answers 404.
RECURSIVE Dispatch(_, _, _, _)
Dispatch(req, i, userId, authRan) ==
  IF i > Len(Routes)
  THEN [name |-> "", status |-> 404, error |-> "404 Not Found",
        userId |-> userId, authRan |-> authRan]
  ELSE IF ~Matches(Routes[i], req)
  THEN Dispatch(req, i + 1, userId, authRan)
  ELSE IF Routes[i].name = "jwtAuth"
  THEN LET a == jwtAuth(req.header, now)
       IN IF a.status = 401
          THEN [name |-> "", status |-> 401, error |-> a.error,
                userId |-> NoUser, authRan |-> TRUE]
          ELSE Dispatch(req, i + 1, a.userId, TRUE)
  ELSE [name |-> Routes[i].name, status |-> 0, error |-> "",
        userId |-> userId, authRan |-> authRan]

\* What the matched route does up to its first answer or its awaited write:
\* ran (the handler body was entered), db (it queried the database), list
\* (ids of the rows in the answer), insert / pend (a row is inserted now /
\* an update or delete is awaited).
Reply(status, error, ran, list) ==
  [status |-> status, error |-> error, ran |-> ran, db |-> ran, list |-> list,
   insert |-> FALSE, pend |-> FALSE]

Handle(req, d) ==
  LET seg == req.path[Len(req.path)]
      rows == SelectTodo(seg.num)
  IN IF HasParam(d.name) /\ ~IdParamValid(seg)
     THEN Reply(400, "validation", FALSE, {})
     ELSE IF d.name \in {"createTodoRoute", "createUserTodoRoute"}
             /\ ~CreateValid(req.body)
     THEN Reply(400, "validation", FALSE, {})
     ELSE IF d.name \in {"updateRoute", "updateUserTodoRoute"}
             /\ ~UpdateValid(req.body)
     THEN Reply(400, "validation", FALSE, {})
     ELSE IF d.name = "listRoute" THEN Reply(200, "", TRUE, AllTodos)
     ELSE IF d.name = "listUserTodosRoute"
     THEN Reply(200, "", TRUE, UserTodos(d.userId))
     \* the legacy values(data) has no userId: todos.user_id (added by
     \* ALTER TABLE `todos` ADD `user_id` text) is stored as null
     ELSE IF d.name \in {"createTodoRoute", "createUserTodoRoute"}
     THEN [Reply(201, "", TRUE, {Len(todos) + 1}) EXCEPT !.insert = TRUE]
     ELSE IF rows = {} THEN Reply(404, "Todo not found", TRUE, {})
     ELSE IF d.name = "getRoute" THEN Reply(200, "", TRUE, {seg.num})
     ELSE IF d.name \in Gated /\ (\E r \in rows : r.userId # d.userId)
     THEN Reply(403, "Unauthorized", TRUE, {})
     ELSE [Reply(0, "", TRUE, {}) EXCEPT !.pend = TRUE]

\* The user a presented header really speaks for at second t: the one its
\* token was issued to under the service's secret, while unexpired.
Proven(header, t) ==
  IF header.kind = "bearer" /\ header.token.mintedWith = JWT_SECRET
       /\ t < header.token.exp
  THEN header.token.mintedFor ELSE NoUser

\* A request between its select and its write.  History: byOwner (the
\* sender is the user the selected row belongs to), authRan (jwtAuth ran on
\* it), proven (Proven of its header then).
IdleReq == [pc |-> "idle", name |-> "", id |-> 0, body |-> NoBody,
            userId |-> NoUser, byOwner |-> FALSE, authRan |-> FALSE,
            proven |-> NoUser]

\* A response, with the route that answered (name, "" if none), the userId
\* of the context, and history: wrote (id of the row the request changed or
\* deleted, 0 if none), owner (that row's userId before), byOwner, mine
\* (the request was GET /api/todos/my-todos) and sender (Proven of the
\* header of a request answered at once).
NoResp == [status |-> 0, error |-> "", name |-> "", ran |-> FALSE, db |-> FALSE,
           list |-> {}, userId |-> NoUser, authRan |-> FALSE,
           proven |-> NoUser, wrote |-> 0, owner |-> NoUser, byOwner |-> FALSE,
           mine |-> FALSE, sender |-> NoUser]

\* Request req runs up to its response or to its awaited write.
TodoReceive(p, req) ==
  /\ \E d \in {Dispatch(req, 1, NoUser, FALSE)} :
      \E h \in {IF d.name = "" THEN Reply(d.status, d.error, FALSE, {})
                ELSE Handle(req, d)} :
      \E proven \in {IF d.authRan THEN Proven(req.header, now) ELSE NoUser} :
        /\ h.insert => Len(todos) < MaxTodos
        /\ todos' = IF h.insert THEN InsertTodo(req.body, d.userId) ELSE todos
        /\ IF h.pend
           THEN /\ tq' = [tq EXCEPT ![p] =
                            [pc |-> "t_write", name |-> d.name,
                             id |-> req.path[Len(req.path)].num,
                             body |-> req.body, userId |-> d.userId,
                             byOwner |-> \A r \in SelectTodo(
                                 req.path[Len(req.path)].num) :
                                   r.userId = req.actor,
                             authRan |-> d.authRan, proven |-> proven]]
                /\ resp' = NoResp
           ELSE /\ resp' = [status |-> h.status, error |-> h.error,
                            name |-> d.name, ran |-> h.ran, db |-> h.db,
                            list |-> h.list, userId |-> d.userId,
                            authRan |-> d.authRan, proven |-> proven,
                            wrote |-> 0, owner |-> NoUser, byOwner |-> FALSE,
                            mine |-> req.method = "GET"
                                       /\ req.path = <<Lit("my-todos")>>,
                            sender |-> Proven(req.header, now)]
                /\ UNCHANGED tq
  /\ UNCHANGED now

\* The awaited update or delete runs in the database; 200 is answered.
TodoWrite(p) ==
  /\ resp = NoResp
  /\ tq[p].pc = "t_write"
  /\ LET c == tq[p]
         rows == SelectTodo(c.id)
     IN /\ todos' = IF c.name \in {"updateRoute", "updateUserTodoRoute"}
                    THEN UpdateTodo(c.id, c.body) ELSE DeleteTodo(c.id)
        /\ resp' = [status |-> 200, error |-> "", name |-> c.name, ran |-> TRUE,
                    db |-> TRUE, list |-> {}, userId |-> c.userId,
                    authRan |-> c.authRan, proven |-> c.proven,
                    wrote |-> IF rows = {} THEN 0 ELSE c.id,
                    owner |-> IF rows = {} THEN NoUser
                              ELSE (CHOOSE r \in rows : TRUE).userId,
                    byOwner |-> rows # {} /\ c.byOwner,
                    mine |-> FALSE, sender |-> NoUser]
  /\ tq' = [tq EXCEPT ![p] = IdleReq]
  /\ UNCHANGED now

\* The response leaves; responses are looked at one at a time.
TodoSent ==
  /\ resp # NoResp
  /\ resp' = NoResp
  /\ UNCHANGED <<now, todos, tq>>

\* Tokens a sender can attach: an anonymous one only forgeries (no JWT, or
\* signed with a guessed secret); a user also the tokens verify-otp issued
\* to them, a day ago or just now, and such a token altered.
HeldBy(actor) ==
  IF actor = NoUser
  THEN {NoToken} \cup {generateJWT(u, "s2", now) : u \in Users}
  ELSE {generateJWT(actor, JWT_SECRET, t) : t \in {now - JWT_TTL, now}}
         \cup {TamperSub(generateJWT(actor, JWT_SECRET, now), u) :
                 u \in Users \ {actor}}
         \cup {TamperExp(generateJWT(actor, JWT_SECRET, now - JWT_TTL))}

HeadersOf(actor) ==
  (IF actor = NoUser THEN {NoHeader, BadHeader} ELSE {})
    \cup {Bearer(tok) : tok \in HeldBy(actor)}

\* Request lines: every route with an id that exists or not, the
\* my-todos paths the legacy ':id' patterns also take, and unrouted ones.
Targets ==
  LET ids == {Num(n) : n \in 1..(Len(todos) + 1)}
      mine == Lit("my-todos")
  IN {[method |-> "GET", path |-> <<>>], [method |-> "POST", path |-> <<>>]}
       \cup {[method |-> m, path |-> <<s>>] :
               m \in {"GET", "PUT", "DELETE"}, s \in ids \cup {mine}}
       \cup {[method |-> "POST", path |-> <<mine>>]}
       \cup {[method |-> m, path |-> <<mine, s>>] :
               m \in {"PUT", "DELETE"}, s \in ids \cup {mine}}
       \cup {[method |-> "GET", path |-> <<mine, mine>>]}

Bodies(method) ==
  IF method = "POST" THEN {NoBody, Body("t1", FALSE, FALSE)}
  ELSE IF method = "PUT" THEN {NoBody, Body("t2", TRUE, TRUE)}
  ELSE {NoBody}

\* ---------------------------------------------------------- images router
\* A row of the images table; gone marks a deleted row (ids are not reused).
ImageIds == 1..Len(images)

\* select().from(images).where(eq(images.id, id)).limit(1)
SelectImage(id) == {images[i] : i \in {j \in ImageIds : images[j].id = id /\ ~images[j].gone}}

\* select().from(images).where(eq(images.userId, userId))
UserImages(userId) ==
  {images[i].id : i \in {j \in ImageIds : ~images[j].gone /\ images[j].userId = userId}}

InsertImage(userId) ==
  Append(images, [id |-> Len(images) + 1, userId |-> userId, gone |-> FALSE])

DeleteImage(id) ==
  [i \in ImageIds |-> IF images[i].id = id THEN [images[i] EXCEPT !.gone = TRUE]
                      ELSE images[i]]

\* clerkAuth: sub is the subject verifyToken yields for the request's bearer
\* token, NoUser when the header is missing or malformed or the token fails.
clerkAuth(sub) == IF sub = NoUser THEN 401 ELSE 0

\* A delete request between its select and its delete.
IdleDel == [pc |-> "idle", id |-> 0, userId |-> NoUser]

\* Ghosts of a response: op, the caller's userId, the id asked for, found
\* (the select returned a row), owner (that row's userId), wrote (the
\* request changed the images table).
NoImageResp == [op |-> "", status |-> 0, error |-> "", userId |-> NoUser, id |-> 0,
                found |-> FALSE, owner |-> NoUser, list |-> {}, wrote |-> FALSE]

ImageDenied(op, sub, id, status, error, rows) ==
  [NoImageResp EXCEPT !.op = op, !.status = status, !.error = error,
                      !.userId = sub, !.id = id, !.found = rows # {},
                      !.owner = IF rows = {} THEN NoUser
                                ELSE (CHOOSE r \in rows : TRUE).userId]

\* The checks uploadImageRoute and deleteImageRoute make after their select:
\* the status of the denial, 0 if the request goes on.
ImageChecks(sub, rows) ==
  IF rows = {} THEN 404
  ELSE IF (CHOOSE r \in rows : TRUE).userId # sub THEN 401
  ELSE 0

ImageCheckError(status) == IF status = 404 THEN "Image not found" ELSE "Unauthorized"

\* GET /api/images
ImageList(sub) ==
  /\ iresp' = IF clerkAuth(sub) # 0
              THEN ImageDenied("list", NoUser, 0, 401, "Unauthorized", {})
              ELSE [NoImageResp EXCEPT !.op = "list", !.status = 200, !.userId = sub,
                                       !.list = UserImages(sub)]
  /\ UNCHANGED <<images, iq>>

\* POST /api/images
ImageCreate(sub) ==
  /\ Len(images) < MaxImages
  /\ IF clerkAuth(sub) # 0
     THEN /\ iresp' = ImageDenied("create", NoUser, 0, 401, "Unauthorized", {})
          /\ UNCHANGED images
     ELSE /\ images' = InsertImage(sub)
          /\ iresp' = [NoImageResp EXCEPT !.op = "create", !.status = 201, !.userId = sub,
                                          !.id = Len(images) + 1, !.wrote = TRUE]
  /\ UNCHANGED iq

\* PUT /api/images/{id}/upload
ImageUpload(sub, id) ==
  /\ \E rows \in {SelectImage(id)} :
       iresp' = IF clerkAuth(sub) # 0
                THEN ImageDenied("upload", NoUser, id, 401, "Unauthorized", {})
                ELSE IF ImageChecks(sub, rows) # 0
                THEN ImageDenied("upload", sub, id, ImageChecks(sub, rows),
                                 ImageCheckError(ImageChecks(sub, rows)), rows)
                ELSE [ImageDenied("upload", sub, id, 200, "", rows) EXCEPT !.status = 200]
  /\ UNCHANGED <<images, iq>>

\* DELETE /api/images/{id}: clerkAuth, the select and the two checks.
ImageDeleteSelect(p, sub, id) ==
  /\ iq[p].pc = "idle"
  /\ \E rows \in {SelectImage(id)} :
       IF clerkAuth(sub) # 0
       THEN /\ iresp' = ImageDenied("delete", NoUser, id, 401, "Unauthorized", {})
            /\ UNCHANGED iq
       ELSE IF ImageChecks(sub, rows) # 0
       THEN /\ iresp' = ImageDenied("delete", sub, id, ImageChecks(sub, rows),
                                    ImageCheckError(ImageChecks(sub, rows)), rows)
            /\ UNCHANGED iq
       ELSE /\ iq' = [iq EXCEPT ![p] = [pc |-> "delete", id |-> id, userId |-> sub]]
            /\ iresp' = NoImageResp
  /\ UNCHANGED images

\* DELETE /api/images/{id}: IMAGES_BUCKET.delete, db.delete and the response.
ImageDeleteWrite(p) ==
  /\ iq[p].pc = "delete"
  /\ images' = DeleteImage(iq[p].id)
  /\ iresp' = [NoImageResp EXCEPT !.op = "delete", !.status = 200,
                                  !.userId = iq[p].userId, !.id = iq[p].id,
                                  !.found = TRUE, !.owner = iq[p].userId,
                                  !.wrote = images' # images]
  /\ iq' = [iq EXCEPT ![p] = IdleDel]

\* ---------------------------------------------------------- todos service
\* Two users have signed up.
InitTodo ==
  /\ now = JWT_TTL
  /\ otps = <<>>
  /\ vp = [p \in Procs |-> IdleProc]
  /\ ret = NoReturn
  /\ users = <<[id |-> 1, email |-> EmailSeq[1], name |-> "null",
                emailVerified |-> TRUE],
               [id |-> 2, email |-> EmailSeq[2], name |-> "null",
                emailVerified |-> TRUE]>>
  /\ gp = [p \in Procs |-> IdleGet]
  /\ gret = NoGet
  /\ chk = NoCheck
  /\ todos = <<>>
  /\ tq = [p \in Pending |-> IdleReq]
  /\ resp = NoResp
  /\ hp = [p \in Procs |-> IdleAuth]
  /\ hresp = NoAuthResp
  /\ images = <<>>
  /\ iq = [p \in Pending |-> IdleDel]
  /\ iresp = NoImageResp
  /\ env = [JWT_SECRET |-> JWT_SECRET]

\* A request arrives from some sender.
TodoArrive(p) ==
  /\ resp = NoResp
  /\ FirstIdle(tq, p)
  /\ \E actor \in {NoUser} \cup Users, t \in Targets :
       \E header \in HeadersOf(actor), body \in Bodies(t.method) :
         TodoReceive(p, [method |-> t.method, path |-> t.path,
                         header |-> header, actor |-> actor, body |-> body])

NextTodo ==
  \/ \E p \in Pending : TodoArrive(p) /\ UNCHANGED <<varsOtp, varsUser, varsJwt, varsAuth, varsImage>>
  \/ \E p \in Pending : TodoWrite(p) /\ UNCHANGED <<varsOtp, varsUser, varsJwt, varsAuth, varsImage>>
  \/ TodoSent /\ UNCHANGED <<varsOtp, varsUser, varsJwt, varsAuth, varsImage>>

SpecTodo == InitTodo /\ [][NextTodo]_vars

\* C6: a todo is changed or deleted only by a request its owner sent.
C6_OwnershipIsolation == resp.wrote # 0 => resp.byOwner

\* C13: a GET /api/todos/my-todos request carrying a valid token of user U
\* is answered 200 with exactly the stored todos whose userId is U.
C13_ListScoped ==
  (resp.mine /\ resp.sender # NoUser) =>
     /\ resp.status = 200
     /\ \A i \in TodoIds :
          todos[i].id \in resp.list <=>
            (~todos[i].gone /\ todos[i].userId = resp.sender)

\* C30: a GET /api/todos/my-todos request carrying a valid token goes
\* through jwtAuth to the listUserTodosRoute handler, not to the legacy
\* getRoute or its id validation.
C30_MyTodosPrecedence ==
  (resp.mine /\ resp.sender # NoUser) =>
     /\ resp.authRan /\ resp.name = "listUserTodosRoute" /\ resp.ran
     /\ resp.error # "validation"

\* C21: every stored todo has the user id of the authenticated sender of
\* the request that created it, and no step changes the userId of a stored
\* todo.
C21_OwnerFixed ==
  [][/\ \A i \in 1..Len(todos') :
          ~todos'[i].gone => todos'[i].userId \in Users
     /\ \A i \in TodoIds :
          ~todos'[i].gone => todos'[i].userId = todos[i].userId
     /\ resp'.status = 201 =>
          \A i \in 1..Len(todos') :
            todos'[i].id \in resp'.list =>
              (resp'.sender # NoUser /\ todos'[i].userId = resp'.sender)]_vars

InitImage == InitTodo

NextImage ==
  \/ \E sub \in {NoUser} \cup Users :
       ImageList(sub) /\ UNCHANGED <<now, varsOtp, varsUser, varsJwt, varsTodo, varsAuth>>
  \/ \E sub \in {NoUser} \cup Users :
       ImageCreate(sub) /\ UNCHANGED <<now, varsOtp, varsUser, varsJwt, varsTodo, varsAuth>>
  \/ \E sub \in {NoUser} \cup Users, id \in 1..MaxImages :
       ImageUpload(sub, id) /\ UNCHANGED <<now, varsOtp, varsUser, varsJwt, varsTodo, varsAuth>>
  \/ \E p \in Pending, sub \in {NoUser} \cup Users, id \in 1..MaxImages :
       /\ FirstIdle(iq, p)
       /\ ImageDeleteSelect(p, sub, id)
       /\ UNCHANGED <<now, varsOtp, varsUser, varsJwt, varsTodo, varsAuth>>
  \/ \E p \in Pending :
       ImageDeleteWrite(p) /\ UNCHANGED <<now, varsOtp, varsUser, varsJwt, varsTodo, varsAuth>>

SpecImage == InitImage /\ [][NextImage]_vars

\* C14: an upload or delete request of an authenticated user is answered 404
\* when no image has the id and 403 when the image has another owner, and
\* changes no row in either case.
C14_DenialShapes ==
  (iresp.op \in {"upload", "delete"} /\ iresp.userId # NoUser) =>
     /\ ~iresp.found => (iresp.status = 404 /\ ~iresp.wrote)
     /\ (iresp.found /\ iresp.owner # iresp.userId) =>
          (iresp.status = 403 /\ ~iresp.wrote)

\* ------------------------------------------------------------- OTP ledger
InitOtp ==
  /\ now = 0
  /\ otps = <<>>
  /\ vp = [p \in Procs |-> IdleProc]
  /\ ret = NoReturn
  /\ users = <<>>
  /\ gp = [p \in Procs |-> IdleGet]
  /\ gret = NoGet
  /\ chk = NoCheck
  /\ todos = <<>>
  /\ tq = [p \in Pending |-> IdleReq]
  /\ resp = NoResp
  /\ hp = [p \in Procs |-> IdleAuth]
  /\ hresp = NoAuthResp
  /\ images = <<>>
  /\ iq = [p \in Pending |-> IdleDel]
  /\ iresp = NoImageResp
  /\ env = [JWT_SECRET |-> JWT_SECRET]

TickOtp == Tick(OTP_TTL) /\ ret' = NoReturn /\ UNCHANGED <<otps, vp>>

NextOtp ==
  \/ TickOtp /\ UNCHANGED <<varsUser, varsJwt, varsTodo, varsAuth, varsImage>>
  \/ \E e \in Names(EmailSeq, {otps[i].email : i \in OtpIds}),
        c \in Names(CodeSeq, {otps[i].code : i \in OtpIds}), m \in Mails :
       CreateOTP(e, c, m) /\ UNCHANGED <<varsUser, varsJwt, varsTodo, varsAuth, varsImage>>
  \/ \E p \in Procs, e \in Emails, c \in Codes :
       FirstIdle(vp, p) /\ VerifySelect(p, e, c)
         /\ UNCHANGED <<varsUser, varsJwt, varsTodo, varsAuth, varsImage>>
  \/ \E p \in Procs : VerifyUpdate(p) /\ UNCHANGED <<varsUser, varsJwt, varsTodo, varsAuth, varsImage>>

SpecOtp == InitOtp /\ [][NextOtp]_vars

\* ------------------------------------------------- getOrCreateUser calls
InitUser == InitOtp

NextUser ==
  \/ \E p \in Procs, e \in Emails :
       FirstIdle(gp, p) /\ GetSelect(p, e)
         /\ UNCHANGED <<varsOtp, varsJwt, varsTodo, varsAuth, varsImage>>
  \/ \E p \in Procs : GetInsert(p) /\ UNCHANGED <<varsOtp, varsJwt, varsTodo, varsAuth, varsImage>>
  \/ \E id \in UserIds \cup {Len(users) + 1} :
       MarkEmailAsVerified(id) /\ UNCHANGED <<varsOtp, varsJwt, varsTodo, varsAuth, varsImage>>

SpecUser == InitUser /\ [][NextUser]_vars

\* C5: every getOrCreateUser call returns (none throws) the id of the one
\* users row that holds its e-mail.
C5_AllReturnSameId ==
  /\ \A i, j \in UserIds : users[i].email = users[j].email => i = j
  /\ (gret.returned \/ gret.threw) =>
        /\ ~gret.threw
        /\ \E i \in UserIds : users[i].email = gret.email
                                 /\ users[i].id = gret.id

\* ------------------------------------------------------ /api/auth routes
AuthFailure(route, email, message, otpFailed) ==
  [NoAuthResp EXCEPT !.route = route, !.email = email, !.status = 400,
                     !.message = message, !.otpFailed = otpFailed,
                     !.db = message # "validation"]

\* Strings a client can put in the email key that are no e-mail address,
\* and in the code key that are not six digits.
BadEmails == {"a.x.io"}
BadCodes == {"12345", "abcdef"}

\* z.string().email('Invalid email address')
EmailValid(email) == email \notin BadEmails

\* VerifyOTPRequestSchema.code: z.string().length(6)
CodeValid(code) == Len(code) = 6

SendOtpMessage_Leaky(email) ==
  IF SelectUser(email) = {} THEN "Account created, OTP sent"
  ELSE "OTP sent to your email"

\* message of the send-otp success body
SendOtpMessage(email) == "OTP sent to your email"

\* POST /api/auth/send-otp: createOTP, then 200; 400 when createOTP threw
SendOtp(email, code, mail) ==
  /\ IF ~EmailValid(email)
     THEN /\ hresp' = AuthFailure("send-otp", email, "validation", FALSE)
          /\ ret' = NoReturn
          /\ UNCHANGED <<now, otps, vp>>
     ELSE /\ CreateOTP(email, code, mail)
          /\ hresp' = IF ret'.outcome = "throw"
                      THEN AuthFailure("send-otp", email, "Failed to send OTP", FALSE)
                      ELSE [NoAuthResp EXCEPT !.route = "send-otp", !.email = email,
                                              !.status = 200, !.success = TRUE,
                                              !.message = SendOtpMessage(email),
                                              !.db = TRUE]
  /\ gret' = NoGet
  /\ UNCHANGED <<users, gp, hp>>

\* POST /api/auth/verify-otp up to verifyOTP's awaited update: the validator
\* answers 400; a failed verifyOTP is answered 400 with its error as message.
AuthVerify(p, email, code) ==
  /\ FirstIdle(hp, p)
  /\ IF ~EmailValid(email) \/ ~CodeValid(code)
     THEN /\ hresp' = [AuthFailure("verify-otp", email, "validation", FALSE)
                          EXCEPT !.code = code]
          /\ ret' = NoReturn
          /\ UNCHANGED <<now, otps, vp, hp>>
     ELSE /\ VerifySelect(p, email, code)
          /\ IF ret' # NoReturn
             THEN /\ hresp' = [AuthFailure("verify-otp", email,
                                           IF ret'.error # "" THEN ret'.error
                                           ELSE "Failed to verify OTP", TRUE)
                                  EXCEPT !.code = code]
                  /\ UNCHANGED hp
             ELSE /\ hp' = [hp EXCEPT ![p] = [pc |-> "h_update", email |-> email,
                                             userId |-> NoUser,
                                             consumed |-> FALSE, otp |-> 0]]
                  /\ hresp' = NoAuthResp
  /\ gret' = NoGet
  /\ UNCHANGED <<users, gp>>

\* verifyOTP's update runs and it returns success; getOrCreateUser is next.
AuthUpdate(p) ==
  /\ hp[p].pc = "h_update"
  /\ VerifyUpdate(p)
  /\ hp' = [hp EXCEPT ![p].pc = "h_get",
                      ![p].consumed = ~otps[vp[p].rec.id].isUsed,
                      ![p].otp = vp[p].rec.id]
  /\ hresp' = NoAuthResp
  /\ gret' = NoGet
  /\ UNCHANGED <<users, gp>>

\* getOrCreateUser's select
AuthGet(p) ==
  /\ hp[p].pc = "h_get"
  /\ GetSelect(p, hp[p].email)
  /\ hp' = [hp EXCEPT ![p].pc = IF gret'.returned THEN "h_mark" ELSE "h_insert",
                      ![p].userId = gret'.id]
  /\ hresp' = NoAuthResp
  /\ ret' = NoReturn
  /\ UNCHANGED <<otps, vp>>

\* getOrCreateUser's insert; when it throws the handler's catch answers 400.
AuthInsert(p) ==
  /\ hp[p].pc = "h_insert"
  /\ GetInsert(p)
  /\ IF gret'.threw
     THEN /\ hp' = [hp EXCEPT ![p] = IdleAuth]
          /\ hresp' = [AuthFailure("verify-otp", hp[p].email,
                                   "Failed to verify OTP", FALSE)
                          EXCEPT !.consumed = hp[p].consumed]
     ELSE /\ hp' = [hp EXCEPT ![p].pc = "h_mark", ![p].userId = gret'.id]
          /\ hresp' = NoAuthResp
  /\ ret' = NoReturn
  /\ UNCHANGED <<otps, vp>>

\* markEmailAsVerified(db, userId)
AuthMark(p) ==
  /\ hp[p].pc = "h_mark"
  /\ MarkEmailAsVerified(hp[p].userId)
  /\ hp' = [hp EXCEPT ![p].pc = "h_user"]
  /\ hresp' = NoAuthResp
  /\ ret' = NoReturn
  /\ UNCHANGED <<otps, vp>>

\* generateJWT, the select of the user row by id, and the 200 response
AuthRespond(p) ==
  /\ hp[p].pc = "h_user"
  /\ \E u \in {users[i] : i \in {j \in UserIds : users[j].id = hp[p].userId}} :
       hresp' = [route |-> "verify-otp", email |-> hp[p].email, status |-> 200,
                 success |-> TRUE, message |-> "",
                 token |-> generateJWT(hp[p].userId, JWT_SECRET, now),
                 user |-> u, otpFailed |-> FALSE, consumed |-> hp[p].consumed,
                 code |-> "", db |-> TRUE, otp |-> hp[p].otp]
  /\ hp' = [hp EXCEPT ![p] = IdleAuth]
  /\ ret' = NoReturn
  /\ gret' = NoGet
  /\ UNCHANGED <<now, otps, vp, users, gp>>

TickAuth ==
  /\ Tick(OTP_TTL)
  /\ ret' = NoReturn
  /\ gret' = NoGet
  /\ hresp' = NoAuthResp
  /\ UNCHANGED <<otps, vp, users, gp, hp>>

InitAuth == InitOtp

NextAuth ==
  \/ TickAuth /\ UNCHANGED <<varsJwt, varsTodo, varsImage>>
  \/ \E e \in Names(EmailSeq, {otps[i].email : i \in OtpIds}) \cup BadEmails,
        c \in Names(CodeSeq, {otps[i].code : i \in OtpIds}), m \in Mails :
       SendOtp(e, c, m) /\ UNCHANGED <<varsJwt, varsTodo, varsImage>>
  \/ \E p \in Procs, e \in Emails \cup BadEmails, c \in Codes \cup BadCodes :
       AuthVerify(p, e, c) /\ UNCHANGED <<varsJwt, varsTodo, varsImage>>
  \/ \E p \in Procs : AuthUpdate(p) /\ UNCHANGED <<varsJwt, varsTodo, varsImage>>
  \/ \E p \in Procs : AuthGet(p) /\ UNCHANGED <<varsJwt, varsTodo, varsImage>>
  \/ \E p \in Procs : AuthInsert(p) /\ UNCHANGED <<varsJwt, varsTodo, varsImage>>
  \/ \E p \in Procs : AuthMark(p) /\ UNCHANGED <<varsJwt, varsTodo, varsImage>>
  \/ \E p \in Procs : AuthRespond(p) /\ UNCHANGED <<varsJwt, varsTodo, varsImage>>

SpecAuth == InitAuth /\ [][NextAuth]_vars

\* ------------------------------------------- send-otp and the users table
\* send-otp requests while getOrCreateUser and markEmailAsVerified calls
\* (made by verify-otp requests) fill the users table.
InitSend == InitOtp

NextSend ==
  \/ TickAuth /\ UNCHANGED <<varsJwt, varsTodo, varsImage>>
  \/ \E e \in Names(EmailSeq, {otps[i].email : i \in OtpIds}),
        c \in Names(CodeSeq, {otps[i].code : i \in OtpIds}), m \in Mails :
       SendOtp(e, c, m) /\ UNCHANGED <<varsJwt, varsTodo, varsImage>>
  \/ \E p \in Procs, e \in Emails :
       FirstIdle(gp, p) /\ GetSelect(p, e) /\ ret' = NoReturn
         /\ hresp' = NoAuthResp /\ UNCHANGED <<otps, vp, hp, varsJwt, varsTodo, varsImage>>
  \/ \E p \in Procs :
       GetInsert(p) /\ ret' = NoReturn /\ hresp' = NoAuthResp
         /\ UNCHANGED <<otps, vp, hp, varsJwt, varsTodo, varsImage>>
  \/ \E id \in UserIds :
       MarkEmailAsVerified(id) /\ ret' = NoReturn /\ hresp' = NoAuthResp
         /\ UNCHANGED <<otps, vp, hp, varsJwt, varsTodo, varsImage>>

SpecSend == InitSend /\ [][NextSend]_vars

\* C11: every send-otp response is the same 200 acknowledgment, whether or
\* not a users row holds the e-mail, and the request leaves the users
\* table as it was.
C11_NoUserLeak ==
  [][hresp'.route = "send-otp" =>
       /\ hresp'.status = 200 /\ hresp'.success
       /\ hresp'.message = "OTP sent to your email"
       /\ hresp'.token = NoToken /\ hresp'.user = NoUserRow
       /\ users' = users]_vars

\* C11 witness: send-otp answered for an e-mail that a users row holds.
C11_Witness ==
  hresp.route = "send-otp" /\ hresp.status = 200
    /\ \E i \in UserIds : users[i].email = hresp.email

\* A verify-otp response to a request whose verifyOTP call failed
VerifyFailed(r) == r.route = "verify-otp" /\ r.otpFailed

\* C10: two failing verification requests answered one after the other
\* get the same status and the same body.
C10_SameFailure ==
  [][(VerifyFailed(hresp) /\ VerifyFailed(hresp')) =>
       (hresp'.status = hresp.status /\ hresp'.success = hresp.success
          /\ hresp'.message = hresp.message)]_vars

\* ------------------------------------------------------------------ login
\* Concurrent send-otp and verify-otp requests with well-formed input, all
\* within one second and from localhost; generateOTP draws the same code
\* each time.
InitLogin == InitOtp

NextLogin ==
  \/ \E e \in Names(EmailSeq, {otps[i].email : i \in OtpIds}) :
       SendOtp(e, CodeSeq[1], "localhost") /\ UNCHANGED <<varsJwt, varsTodo, varsImage>>
  \/ \E p \in Procs, e \in Emails, c \in Codes :
       AuthVerify(p, e, c) /\ UNCHANGED <<varsJwt, varsTodo, varsImage>>
  \/ \E p \in Procs : AuthUpdate(p) /\ UNCHANGED <<varsJwt, varsTodo, varsImage>>
  \/ \E p \in Procs : AuthGet(p) /\ UNCHANGED <<varsJwt, varsTodo, varsImage>>
  \/ \E p \in Procs : AuthInsert(p) /\ UNCHANGED <<varsJwt, varsTodo, varsImage>>
  \/ \E p \in Procs : AuthMark(p) /\ UNCHANGED <<varsJwt, varsTodo, varsImage>>
  \/ \E p \in Procs : AuthRespond(p) /\ UNCHANGED <<varsJwt, varsTodo, varsImage>>

SpecLogin == InitLogin /\ [][NextLogin]_vars

\* C23: a getOrCreateUser call that returns gives the id of the row holding
\* the e-mail and leaves the table unchanged when there is one, and otherwise
\* has appended one row (emailVerified false, name null) whose id it
\* returns; a row is only ever added by a request whose verifyOTP succeeded,
\* never by send-otp or by a verify-otp request answered without a token.
C23_GetOrCreate ==
  [][/\ gret'.returned =>
          IF SelectUser(gret'.email) # {}
          THEN /\ users' = users
               /\ \A u \in SelectUser(gret'.email) : u.id = gret'.id
          ELSE users' = Append(users, [id |-> gret'.id, email |-> gret'.email,
                                       name |-> "null", emailVerified |-> FALSE])
     /\ Len(users') # Len(users) =>
          /\ Len(users') = Len(users) + 1
          /\ \E p \in Procs : hp[p].pc = "h_insert" /\ hp'[p].pc = "h_mark"
     /\ (hresp'.route = "send-otp"
           \/ (hresp'.route = "verify-otp" /\ hresp'.token = NoToken)) =>
          Len(users') = Len(users)]_vars

\* C23 witness: getOrCreateUser returned the id of a row that was there
\* before (it is verified already).
C23_Witness ==
  /\ gret.returned
  /\ \E i \in UserIds : users[i].email = gret.email /\ users[i].id = gret.id
                            /\ users[i].emailVerified

\* C24: a users row is created unverified; emailVerified never goes back to
\* false; markEmailAsVerified applied to its own result changes nothing; a
\* verify-otp request answered 200 reports emailVerified true and the row of
\* its e-mail is verified.
C24_VerifiedLifecycle ==
  [][/\ Len(users') > Len(users) => ~users'[Len(users')].emailVerified
     /\ \A i \in UserIds : users[i].emailVerified => users'[i].emailVerified
     /\ \A p \in Procs : (hp[p].pc = "h_mark" /\ hp'[p].pc = "h_user") =>
          /\ \A i \in UserIds :
               users[i].id = hp[p].userId => users'[i].emailVerified
          /\ users' = [i \in UserIds |->
                         IF users'[i].id = hp[p].userId
                         THEN [users'[i] EXCEPT !.emailVerified = TRUE]
                         ELSE users'[i]]
     /\ (hresp'.route = "verify-otp" /\ hresp'.status = 200) =>
          /\ hresp'.user.emailVerified
          /\ \A i \in UserIds :
               users'[i].email = hresp'.email => users'[i].emailVerified]_vars

\* C24 witness: a verify-otp request was answered 200 with a verified user
\* while another request that marked the same row is still running.
C24_Witness ==
  /\ hresp.route = "verify-otp" /\ hresp.status = 200
  /\ hresp.user.emailVerified
  /\ \E q \in Procs : hp[q].pc = "h_user" /\ hp[q].userId = hresp.user.id

\* C29: a token leaves only in the 200 response of a verify-otp request
\* whose verifyOTP returned success on a row of the request's e-mail; it is
\* signed under JWT_SECRET with the id of the users row of that e-mail as
\* subject, and that row is the response's user.
C29_SubjectBinding ==
  hresp.token # NoToken =>
    /\ hresp.route = "verify-otp" /\ hresp.status = 200
    /\ hresp.token.sub = hresp.user.id /\ hresp.token.sub # NoUser
    /\ verifyJWT(hresp.token, JWT_SECRET, now).userId = hresp.user.id
    /\ hresp.user.email = hresp.email
    /\ \E i \in UserIds : users[i] = hresp.user
    /\ hresp.otp \in OtpIds
    /\ otps[hresp.otp].email = hresp.email /\ otps[hresp.otp].isUsed

\* C29 witness: the second user to sign up got a token.
C29_Witness ==
  hresp.token # NoToken /\ Len(users) = 2 /\ hresp.user = users[2]

\* Of the strings drawn for the code key, the six-digit numeric ones.
SixDigits(code) == code \in Codes

\* C22: a send-otp or verify-otp request whose email is no e-mail address
\* or whose code is not six digits is answered by the validator, without a
\* read or write of a table.
C22_RejectedBeforeStorage ==
  (hresp.route # "" /\ (~EmailValid(hresp.email)
                          \/ (hresp.code # "" /\ ~SixDigits(hresp.code)))) =>
     hresp.status = 400 /\ hresp.message = "validation" /\ ~hresp.db

\* C17: a verify-otp request answered without a token has marked no otp
\* row used.
C17_NoPartialMutation ==
  (hresp.route = "verify-otp" /\ hresp.token = NoToken) => ~hresp.consumed

\* ------------------------------------------------- token issue and verify
InitJwt == InitOtp

NextJwt ==
  \/ TickJwt /\ UNCHANGED <<varsOtp, varsUser, varsTodo, varsAuth, varsImage>>
  \/ \E tok \in Tokens, s \in Secrets :
       VerifyJwtCall(tok, s) /\ UNCHANGED <<varsOtp, varsUser, varsTodo, varsAuth, varsImage>>
  \/ \E h \in Headers : JwtAuthRun(h) /\ UNCHANGED <<varsOtp, varsUser, varsTodo, varsAuth, varsImage>>

SpecJwt == InitJwt /\ [][NextJwt]_vars

\* A jwtAuth run that rejected the token of a 'Bearer <token>' header
TokenRejected(c) == c.kind = "jwtAuth" /\ c.header = "bearer" /\ c.status = 401

\* C19: two requests with a 'Bearer <token>' header whose tokens fail
\* verification, answered one after the other, get the same status and body.
C19_SameRejection ==
  [][(TokenRejected(chk) /\ TokenRejected(chk')) =>
       (chk'.status = chk.status /\ chk'.error = chk.error)]_vars

\* C8: verifyJWT(generateJWT(U, S), S) before the token's expiry returns
\* userId U and no error; a token whose signature does not match its
\* payload under S (altered, or signed with another secret) gets userId null.
C8_RoundTrip ==
  chk.kind = "verifyJWT" =>
    /\ (chk.token.mintedFor # NoUser /\ chk.token.mintedWith = chk.secret
          /\ chk.at < chk.token.exp)
         => chk.userId = chk.token.mintedFor /\ chk.error = ""
    /\ (chk.token.mintedFor = NoUser \/ chk.token.mintedWith # chk.secret)
         => chk.userId = NoUser /\ chk.error # ""

\* C8 witness: an issued token verified under its secret before expiry,
\* yielding its user id.
C8_Witness ==
  chk.kind = "verifyJWT" /\ chk.token.mintedFor # NoUser
    /\ chk.token.mintedWith = chk.secret /\ chk.at < chk.token.exp
    /\ chk.userId = chk.token.mintedFor

\* C9: an issued token expires 86400 seconds after its issue; jwtAuth lets
\* a request carrying it through before the expiry and answers 401 after
\* it, whatever the tables hold.
C9_TokenExpiry ==
  /\ \A tok \in Minted : tok.exp = tok.iat + JWT_TTL
  /\ (chk.kind = "jwtAuth" /\ chk.header = "bearer"
        /\ chk.token.mintedFor # NoUser /\ chk.token.mintedWith = JWT_SECRET) =>
        /\ chk.at < chk.token.iat + JWT_TTL =>
              chk.status = 0 /\ chk.userId = chk.token.mintedFor
        /\ chk.at > chk.token.iat + JWT_TTL =>
              chk.status = 401 /\ chk.userId = NoUser

\* C9 witness: a request carrying an issued token is answered 401 after
\* the token's expiry, with no users row stored.
C9_Witness ==
  chk.kind = "jwtAuth" /\ chk.token.mintedFor # NoUser
    /\ chk.token.mintedWith = JWT_SECRET /\ chk.at > chk.token.exp
    /\ chk.status = 401 /\ users = <<>>

\* ----------------------------------------------------------- deployment
\* JWT_SECRET is not among the bindings: c.env.JWT_SECRET is undefined and
\* new TextEncoder().encode(undefined) is the empty key.
NoSecret == ""

\* A deployment with or without the secret starts serving: index.ts exports
\* app and nothing reads the bindings before a request does.
Deploy(secret) ==
  /\ env' = [JWT_SECRET |-> secret]
  /\ chk' = NoCheck
  /\ UNCHANGED now

\* Whether the runtime's HMAC key import throws on the empty key.
EmptyKey == {"throws", "imported"}

\* verify-otp's generateJWT(userId, c.env.JWT_SECRET): the 200 response
\* with the token, or the 400 of the handler's catch when signing threw.
EnvIssue(userId, emptyKey) ==
  /\ chk' = IF env.JWT_SECRET = NoSecret /\ emptyKey = "throws"
            THEN [NoCheck EXCEPT !.kind = "issue", !.secret = env.JWT_SECRET,
                                 !.at = now, !.status = 400,
                                 !.error = "Failed to verify OTP"]
            ELSE [NoCheck EXCEPT !.kind = "issue", !.secret = env.JWT_SECRET,
                                 !.at = now, !.status = 200, !.userId = userId,
                                 !.token = generateJWT(userId, env.JWT_SECRET, now)]
  /\ UNCHANGED <<now, env>>

\* jwtAuth's verifyJWT(token, c.env.JWT_SECRET) on a 'Bearer <token>' header
EnvAuth(tok, emptyKey) ==
  /\ \E v \in {IF env.JWT_SECRET = NoSecret /\ emptyKey = "throws"
               THEN [userId |-> NoUser, error |-> "Token verification failed"]
               ELSE verifyJWT(tok, env.JWT_SECRET, now)} :
       chk' = [kind |-> "jwtAuth", token |-> tok, header |-> "bearer",
               secret |-> env.JWT_SECRET, at |-> now,
               status |-> IF v.userId = NoUser THEN 401 ELSE 0,
               userId |-> v.userId,
               error |-> IF v.userId # NoUser THEN ""
                         ELSE IF v.error # "" THEN v.error ELSE "Invalid token"]
  /\ UNCHANGED <<now, env>>

InitEnv == InitOtp

NextEnv ==
  \/ TickJwt /\ UNCHANGED <<varsOtp, varsUser, varsTodo, varsAuth, varsImage>>
  \/ \E s \in {JWT_SECRET, NoSecret} :
       Deploy(s) /\ UNCHANGED <<varsOtp, varsUser, varsTodo, varsAuth, varsImage>>
  \/ \E u \in Users, k \in EmptyKey :
       EnvIssue(u, k) /\ UNCHANGED <<varsOtp, varsUser, varsTodo, varsAuth, varsImage>>
  \/ \E tok \in Tokens \cup {generateJWT(u, NoSecret, now) : u \in Users},
        k \in EmptyKey :
       EnvAuth(tok, k) /\ UNCHANGED <<varsOtp, varsUser, varsTodo, varsAuth, varsImage>>

SpecEnv == InitEnv /\ [][NextEnv]_vars

\* C25: no token is issued and no token is verified while the signing
\* secret is absent from the configuration.
C25_NoRequestWithoutSecret ==
  chk.kind \in {"issue", "jwtAuth"} => chk.secret # NoSecret

\* A returned call that was given the code of the row it read.
ReturnedCorrect == ret.call.rec.id # 0 /\ ret.code = ret.call.rec.code

\* C1: of the verifyOTP calls given the correct code of an unexpired row,
\* one returns success (its update found the row still unused) and every
\* other one returns 'OTP already used'.
C1_AtMostOnce ==
  (ReturnedCorrect /\ ~ret.call.late) =>
     \/ ret.success /\ ~ret.dup
     \/ ~ret.success /\ ret.error = "OTP already used"

\* C2: the row verifyOTP evaluates the code against is one with the
\* greatest creation time among the rows of the e-mail.
C2_MostRecent ==
  /\ ret.call.rec.id # 0 => ret.call.isNewest
  /\ \A p \in Procs : vp[p].pc = "v_update" => vp[p].isNewest

C4_Expiry ==
  /\ \A i \in OtpIds : otps[i].expiresAt = otps[i].createdAt + OTP_TTL
  /\ (ReturnedCorrect /\ ~ret.call.rec.isUsed) =>
        /\ ret.call.late =>
              ~ret.success /\ ret.error = "OTP expired" /\ ~ret.upd
                /\ ~otps[ret.call.rec.id].isUsed
        /\ ~ret.call.late => ret.error # "OTP expired"
  /\ \A p \in Procs : vp[p].pc = "v_update" => ~vp[p].late

\* C4 witness: a call with the correct code on an unused row, made after
\* expiresAt, returned 'OTP expired'.
C4_Witness ==
  ReturnedCorrect /\ ~ret.call.rec.isUsed /\ ret.call.late
    /\ ret.error = "OTP expired"

\* --------------------------------------------------------- e-mail spelling
\* Two spellings of one address, as the request schemas (z.string().email())
\* pass them on.
CaseEmails == {"a@x.io", "A@x.io"}

\* The case-normalized form of an address.
Lower(email) == IF email = "A@x.io" THEN "a@x.io" ELSE email

InitCase == InitOtp

NextCase ==
  \/ \E e \in CaseEmails :
       /\ CreateOTP(e, CodeSeq[1], "localhost")
       /\ gret' = NoGet
       /\ UNCHANGED <<users, gp, varsJwt, varsTodo, varsAuth, varsImage>>
  \/ \E p \in Procs, e \in CaseEmails :
       /\ FirstIdle(vp, p)
       /\ VerifySelect(p, e, CodeSeq[1])
       /\ gret' = NoGet
       /\ UNCHANGED <<users, gp, varsJwt, varsTodo, varsAuth, varsImage>>
  \/ \E p \in Procs :
       /\ VerifyUpdate(p)
       /\ gret' = NoGet
       /\ UNCHANGED <<users, gp, varsJwt, varsTodo, varsAuth, varsImage>>
  \/ \E p \in Procs, e \in CaseEmails :
       /\ FirstIdle(gp, p)
       /\ GetSelect(p, e)
       /\ ret' = NoReturn
       /\ UNCHANGED <<otps, vp, varsJwt, varsTodo, varsAuth, varsImage>>
  \/ \E p \in Procs :
       /\ GetInsert(p)
       /\ ret' = NoReturn
       /\ UNCHANGED <<otps, vp, varsJwt, varsTodo, varsAuth, varsImage>>

SpecCase == InitCase /\ [][NextCase]_vars

\* C18: addresses that differ only in letter case share one users row, whose
\* id getOrCreateUser returns for either, and verifyOTP finds a code issued
\* for one spelling when called with the other.
C18_CaseNormalized ==
  /\ \A i, j \in UserIds :
       Lower(users[i].email) = Lower(users[j].email) => i = j
  /\ gret.returned =>
       \A i \in UserIds :
         Lower(users[i].email) = Lower(gret.email) => users[i].id = gret.id
  /\ (ret.call # IdleProc /\ ret.error = "OTP not found") =>
       \A i \in OtpIds : Lower(otps[i].email) # Lower(ret.email)

\* C26: verifyOTP answers 'OTP not found' when the e-mail has no row, else
\* 'Invalid OTP' for a wrong code whatever the row's state, else 'OTP
\* already used' for a used row even when it has expired too.
C26_CheckOrder ==
  ret.call # IdleProc =>
    /\ ret.call.rec.id = 0 => ret.error = "OTP not found"
    /\ (ret.call.rec.id # 0 /\ ret.code # ret.call.rec.code) =>
          ret.error = "Invalid OTP"
    /\ (ReturnedCorrect /\ ret.call.rec.isUsed) =>
          ret.error = "OTP already used"
    /\ ret.error = "OTP expired" =>
          ReturnedCorrect /\ ~ret.call.rec.isUsed /\ ret.call.late

\* C26 witness: the correct code of a row both used and expired was
\* answered 'OTP already used'.
C26_Witness ==
  ReturnedCorrect /\ ret.call.rec.isUsed /\ ret.call.late
    /\ ret.error = "OTP already used"

\* C27: no step removes an otp row or changes a row's id, e-mail, code,
\* expiresAt or creation time, and isUsed never goes back to false.
C27_AppendOnly ==
  [][/\ Len(otps') >= Len(otps)
     /\ \A i \in OtpIds :
          /\ otps'[i] = [otps[i] EXCEPT !.isUsed = otps'[i].isUsed]
          /\ otps[i].isUsed => otps'[i].isUsed]_vars

\* C27 witness: a code was created after an earlier row had been used.
C27_Witness ==
  ret.made > 1 /\ \E i \in 1..(ret.made - 1) : otps[i].isUsed

\* The row createOTP inserted last for the e-mail, if it is unused,
\* unexpired and holds the code.
FreshCode(email, code) ==
  \E i \in OtpIds :
    /\ otps[i].email = email /\ otps[i].code = code
    /\ ~otps[i].isUsed /\ now <= otps[i].expiresAt
    /\ \A j \in OtpIds : otps[j].email = email => j <= i

\* C28: a verifyOTP call given the code of the latest createOTP call for
\* its e-mail, unused and within its ten minutes, does not fail.
C28_RepeatLogin ==
  (ret.call # IdleProc /\ ~ret.success) => ~FreshCode(ret.email, ret.code)

\* C15: a verifyOTP call that returns failure changes no otp row; one that
\* returns success changes exactly one row, from isUsed = false to true.
C15_VerifyFrame ==
  [][ret'.call # IdleProc =>
        IF ret'.success
        THEN /\ Len(otps') = Len(otps)
             /\ \E i \in OtpIds :
                  /\ ~otps[i].isUsed
                  /\ otps' = [otps EXCEPT ![i].isUsed = TRUE]
        ELSE otps' = otps]_vars

\* C16: a createOTP call appends one row, unused and expiring 600 seconds
\* after the call, and changes no other otp row and no users row.
C16_CreateFrame ==
  [][ret'.made # 0 =>
        /\ Len(otps') = Len(otps) + 1
        /\ \A i \in OtpIds : otps'[i] = otps[i]
        /\ ~otps'[Len(otps')].isUsed
        /\ otps'[Len(otps')].expiresAt = now + OTP_TTL
        /\ otps'[Len(otps')].code = ret'.code
        /\ users' = users]_vars

\* C16 witness: createOTP returned while an earlier unused code of the same
\* e-mail is stored.
C16_Witness ==
  /\ ret.made > 1
  /\ \E i \in 1..(ret.made - 1) :
       otps[i].email = otps[ret.made].email /\ ~otps[i].isUsed
         /\ otps[i].expiresAt >= now

\* A createOTP call that stored its row and whose mail delivery failed
DeliveryFailed == ret.made # 0 /\ ret.mail = "failed"

C20_DeliveryFailureDistinct ==
  DeliveryFailed =>
     ret.outcome # CreateOutcome("sent") /\ ret.outcome # "throw"

====
